---------------------------- MODULE Spec2Model ----------------------------
(***************************************************************************)
(* A model of HybridPDFParser (src/pdf_parser.py): the classifier          *)
(* is_scanned_pdf, the OCR path ocr_extract, the digital path              *)
(* rule_based_extract with extract_images, the escalation through          *)
(* call_gemini_for_structure / call_llm_for_json (src/llm_client.py) and   *)
(* the orchestrator parse.                                                 *)
(*                                                                         *)
(* The third-party libraries (pdfplumber, fitz, camelot, img2table,        *)
(* pdf2image, the LLM service) are the environment: every call to one of   *)
(* them either raises or returns an answer drawn from a small set.         *)
(***************************************************************************)
EXTENDS Integers, Sequences, FiniteSets, TLC

----------------------------------------------------------------------------
(* Bounds and program constants *)

\* Bound: a document of Spec has at most MaxPages pages; a document of
\* SpecClassify has at most MaxPages + 1.
MaxPages == 2

\* is_scanned_pdf(self, sample_pages=2)
sample_pages == 2

\* `len(text.strip()) > 50` in both probes of is_scanned_pdf
MIN_TEXT_LEN == 50

----------------------------------------------------------------------------
(* Python values *)

\* What a call into a library does: it returns v, or it raises.
Ok(v)  == [ok |-> TRUE, v |-> v]
Raised == [ok |-> FALSE, v |-> <<>>]

\* Python's None as a dict value, and as the text of a page without any.
None   == "None"
NoText == <<"<None>">>

Min(a, b) == IF a < b THEN a ELSE b

\* A Python str is a sequence of tokens: "sp" is one space, "nl" one line
\* break, "ch" one other character and "WORD" a run of MIN_TEXT_LEN
\* characters that are not white space.
Tokens == {"sp", "nl", "ch", "WORD"}

IsSpace(tok) == tok \in {"sp", "nl"}

Width(tok) == IF tok = "WORD" THEN MIN_TEXT_LEN ELSE 1

RECURSIVE PyLen(_)
PyLen(s) == IF s = <<>> THEN 0 ELSE Width(Head(s)) + PyLen(Tail(s))

RECURSIVE LStrip(_)
LStrip(s) ==
    IF s # <<>> /\ IsSpace(Head(s)) THEN LStrip(Tail(s)) ELSE s

RECURSIVE RStrip(_)
RStrip(s) ==
    IF s # <<>> /\ IsSpace(s[Len(s)])
    THEN RStrip(SubSeq(s, 1, Len(s) - 1))
    ELSE s

\* str.strip()
Strip(s) == RStrip(LStrip(s))

\* `x or ""`
OrEmpty(x) == IF x = NoText \/ x = <<>> THEN <<>> ELSE x

\* The texts a page can carry.  LongText has 51 characters, PaddedText 52 of
\* which 50 are left after strip(), BlockText is two blocks with a blank line
\* between them.
LongText   == <<"WORD", "ch">>
PaddedText == <<"sp", "WORD", "sp">>
BlockText  == <<"ch", "nl", "nl", "ch">>
Texts      == {NoText, <<>>, PaddedText, LongText, BlockText}
MainTexts  == {<<>>, LongText}


----------------------------------------------------------------------------
(* Text cleaning and paragraphs *)

\* str.splitlines(): the lines of s without their line breaks; a final line
\* break opens no further line.
RECURSIVE SplitLinesFrom(_, _, _)
SplitLinesFrom(s, cur, out) ==
    IF s = <<>>
    THEN IF cur = <<>> THEN out ELSE Append(out, cur)
    ELSE IF Head(s) = "nl"
         THEN SplitLinesFrom(Tail(s), <<>>, Append(out, cur))
         ELSE SplitLinesFrom(Tail(s), Append(cur, Head(s)), out)

SplitLines(s) == SplitLinesFrom(s, <<>>, <<>>)

\* " ".join(parts)
RECURSIVE JoinSpace(_)
JoinSpace(parts) ==
    IF parts = <<>> THEN <<>>
    ELSE IF Len(parts) = 1 THEN parts[1]
    ELSE parts[1] \o <<"sp">> \o JoinSpace(Tail(parts))

RECURSIVE StripAll(_)
StripAll(parts) ==
    IF parts = <<>> THEN <<>>
    ELSE <<Strip(Head(parts))>> \o StripAll(Tail(parts))

NonEmpty(x) == x # <<>>

\* Line 32 as a strip() of the whole text: the line breaks inside it stay.
CleanStripOnly(s) == Strip(s)

\* _simple_text_clean, line 32
_simple_text_clean(s) ==
    JoinSpace(SelectSeq(StripAll(SplitLines(s)), NonEmpty))

\* str.split("\n\n"): the pieces between the occurrences of two line breaks,
\* found from the left.
RECURSIVE SplitBlankFrom(_, _, _)
SplitBlankFrom(s, cur, out) ==
    IF s = <<>>
    THEN Append(out, cur)
    ELSE IF Len(s) >= 2 /\ s[1] = "nl" /\ s[2] = "nl"
         THEN SplitBlankFrom(Tail(Tail(s)), <<>>, Append(out, cur))
         ELSE SplitBlankFrom(Tail(s), Append(cur, Head(s)), out)

SplitBlank(s) == SplitBlankFrom(s, <<>>, <<>>)

Paragraph(p) ==
    [type |-> "paragraph", section |-> None, sub_section |-> None, text |-> p]

RECURSIVE ParagraphItems(_)
ParagraphItems(ps) ==
    IF ps = <<>> THEN <<>>
    ELSE <<Paragraph(Head(ps))>> \o ParagraphItems(Tail(ps))

\* lines 78-85 and 190-197: one paragraph item for each piece of the cleaned
\* text that is not blank, stripped.
ParagraphsOf(text) ==
    ParagraphItems(SelectSeq(StripAll(SplitBlank(text)), NonEmpty))

----------------------------------------------------------------------------
(* File names *)

Digit == <<"0", "1", "2", "3", "4", "5", "6", "7", "8", "9">>

\* str(k) for k >= 0
RECURSIVE Decimal(_)
Decimal(k) ==
    IF k < 10 THEN <<Digit[k + 1]>>
    ELSE Decimal(k \div 10) \o <<Digit[(k % 10) + 1]>>

\* os.path.join(self.assets_dir, name) and os.path.basename of it
JoinPath(dir, name) == [dir |-> dir, name |-> name]
basename(path) == path.name

assets_dir == "outputs/<base_name>_assets"

\* Line 199 with the index of the page counted from 0.
SnapshotNameFromZero(i) ==
    <<"p", "a", "g", "e", "_">> \o Decimal(i - 1) \o <<".", "p", "n", "g">>

\* f"page_{i}.png", line 199
SnapshotName(i) ==
    <<"p", "a", "g", "e", "_">> \o Decimal(i) \o <<".", "p", "n", "g">>

\* Line 162 naming the file a plot of the page: f"page_{i+1}_plot_{k}.{ext}".
PlotName(page, img_index, ext) ==
    <<"p", "a", "g", "e", "_">> \o Decimal(page)
        \o <<"_", "p", "l", "o", "t", "_">> \o Decimal(img_index) \o <<".">>
        \o ext

\* f"page_{i+1}_img_{img_index}.{ext}", line 162
image_name(page, img_index, ext) ==
    <<"p", "a", "g", "e", "_">> \o Decimal(page)
        \o <<"_", "i", "m", "g", "_">> \o Decimal(img_index) \o <<".">> \o ext

Table(description, table_data) ==
    [type |-> "table", section |-> None, description |-> description,
     table_data |-> table_data]

ImageItem(img_type, description, image_path) ==
    [type |-> img_type, section |-> None, description |-> description,
     image_path |-> image_path]

----------------------------------------------------------------------------
(* State *)

VARIABLES
    pc,                 \* where parse() is
    page_count,         \* len(pdf.pages) = len(doc) of the document
    ocr_langs,          \* self.ocr_langs, the constructor's argument
    pdfText,            \* pdfText[i]: what page i's extract_text() returns
    probe,              \* is_scanned_pdf's locals at its return
    scanned,            \* parse's local `scanned`, read only once bound
    pages_json,         \* the local `pages_json` of the running extraction
    pdfplumber_tables,  \* rule_based_extract's local, of the last page
    camelot_tables,     \* camelot.read_pdf's answer for the last page, Raised
                        \* while there is none
    ocr_text,           \* ocr_extract's local `ocr_text`, of the last page
    recognized,         \* what easyocr recognized in the attempts of the
                        \* last page, one entry for each language
    table_result,       \* rule_based_extract's local, of the last image
    imgs,               \* rule_based_extract's local `imgs`
    img_pos,            \* how many entries of imgs the image loop has done
    parsed,             \* parse's local `parsed`
    escalation,         \* how the try block of parse lines 259-264 ended
    output,             \* call_llm_for_json's local `output`, "" when the
                        \* model gave no text
    result,             \* what parse() returned
    raised,             \* the message of the exception parse caught, if any
    calls               \* how often each step of parse has run

vars == <<pc, page_count, ocr_langs, pdfText, probe, scanned, pages_json,
          pdfplumber_tables, camelot_tables, ocr_text, recognized,
          table_result, imgs, img_pos, parsed, escalation, output, result,
          raised, calls>>

\* Python dict values are records; a value parse() can return carries its
\* Python type in `tag`.
Dict(d) == [tag |-> "dict", d |-> d]
Unset   == [tag |-> "unset"]

Steps == {"primary", "secondary", "ocr", "rule_based", "check", "escalate"}

Bump(step) == [calls EXCEPT ![step] = @ + 1]

NoProbe == [backend |-> "none", texts |-> <<>>]

\* The value of table_result while no image has been examined.
NoResult == [truthy |-> FALSE, tables |-> <<>>]

\* The values of ocr_langs: no language, and the default of line 36.
OcrLangs == {<<>>, <<"eng">>}

\* The state when parse() is entered on a document of at most maxp pages
\* whose page texts are drawn from `texts`.
InitDoc(maxp, texts) ==
    /\ pc = "classify"
    /\ page_count \in 0..maxp
    /\ ocr_langs \in OcrLangs
    /\ pdfText \in [1..page_count -> texts]
    /\ probe = NoProbe
    /\ scanned = FALSE
    /\ pages_json = <<>>
    /\ pdfplumber_tables = <<>>
    /\ camelot_tables = Raised
    /\ ocr_text = NoText
    /\ recognized = <<>>
    /\ table_result = NoResult
    /\ imgs = <<>>
    /\ img_pos = 0
    /\ parsed = Unset
    /\ escalation = "none"
    /\ output = ""
    /\ result = Unset
    /\ raised = ""
    /\ calls = [s \in Steps |-> 0]

Init == InitDoc(MaxPages, MainTexts)

\* parse without the handler of line 266: the exception leaves parse.
EscapeError(msg) ==
    /\ pc' = "raised"
    /\ result' = Unset
    /\ raised' = msg
    /\ pages_json' = <<>>
    /\ pdfplumber_tables' = <<>>
    /\ camelot_tables' = Raised
    /\ ocr_text' = NoText
    /\ recognized' = <<>>
    /\ table_result' = NoResult
    /\ imgs' = <<>>
    /\ img_pos' = 0
    /\ parsed' = Unset
    /\ probe' = NoProbe

\* parse line 266-267: `except Exception as e: return {"error": str(e)}`;
\* the locals of parse and of the method that raised are gone.
ReturnError(msg) ==
    /\ pc' = "done"
    /\ result' = Dict([error |-> msg])
    /\ raised' = msg
    /\ pages_json' = <<>>
    /\ pdfplumber_tables' = <<>>
    /\ camelot_tables' = Raised
    /\ ocr_text' = NoText
    /\ recognized' = <<>>
    /\ table_result' = NoResult
    /\ imgs' = <<>>
    /\ img_pos' = 0
    /\ parsed' = Unset
    /\ probe' = NoProbe

----------------------------------------------------------------------------
(* is_scanned_pdf *)

\* Line 49 without the sample: every page is examined.
AllPages(n) == n

\* `min(sample_pages, len(pdf.pages))`, lines 49 and 60
pages_to_check(n) == Min(sample_pages, n)

\* The loops of lines 50-53 and 60-63: the number of pages i+1..k of `texts`
\* whose stripped text is longer than MIN_TEXT_LEN, added to `count`.
RECURSIVE ProbeLoop(_, _, _, _)
ProbeLoop(texts, i, k, count) ==
    IF i >= k
    THEN count
    ELSE LET text == OrEmpty(texts[i + 1])
         IN  ProbeLoop(texts, i + 1, k,
                 IF PyLen(Strip(text)) > MIN_TEXT_LEN THEN count + 1 ELSE count)

\* lines 47-55: True iff no examined page has text.
is_scanned_pdf(texts, n) == ProbeLoop(texts, 0, pages_to_check(n), 0) = 0

\* Lines 60-63 without strip(): the untrimmed length is compared.
RECURSIVE RawLoop(_, _, _, _)
RawLoop(texts, i, k, count) ==
    IF i >= k
    THEN count
    ELSE RawLoop(texts, i + 1, k,
             IF PyLen(OrEmpty(texts[i + 1])) > MIN_TEXT_LEN
             THEN count + 1
             ELSE count)

FallbackUntrimmed(texts, n) == RawLoop(texts, 0, pages_to_check(n), 0) = 0

\* lines 58-65: the same with the texts of PyMuPDF.
is_scanned_fallback(texts, n) == ProbeLoop(texts, 0, pages_to_check(n), 0) = 0

Prefix(texts, k) == [i \in 1..k |-> texts[i]]

\* parse without the branch of line 237: every document takes the digital
\* path.
PathIgnoringScan(is_scanned) == "rule_based"

\* parse lines 237-242: a scanned document takes the OCR path and returns
\* its result, any other takes the digital path.
PathFor(is_scanned) == IF is_scanned THEN "ocr" ELSE "rule_based"

\* parse line 236 with is_scanned_pdf lines 46-55: the pdfplumber probe.  It
\* returns the classification, or pdfplumber raises and the except branch of
\* line 56 is entered.
ProbePrimary ==
    /\ pc = "classify"
    /\ calls' = Bump("primary")
    /\ \/ /\ scanned' = is_scanned_pdf(pdfText, page_count)
          /\ probe' = [backend |-> "pdfplumber",
                       texts |-> Prefix(pdfText, pages_to_check(page_count))]
          /\ pc' = PathFor(scanned')
       \/ /\ pc' = "fallback"
          /\ UNCHANGED <<scanned, probe>>
    /\ UNCHANGED <<page_count, ocr_langs, pdfText, pages_json,
                   pdfplumber_tables, camelot_tables, ocr_text, recognized,
                   table_result, imgs, img_pos, parsed, escalation, output,
                   result, raised>>

\* is_scanned_pdf lines 57-65: the PyMuPDF probe.  fitz answers with its own
\* text for each examined page, or raises; what it raises leaves
\* is_scanned_pdf and is caught by parse.
ProbeSecondary ==
    /\ pc = "fallback"
    /\ calls' = Bump("secondary")
    /\ \/ \E fitzText \in [1..pages_to_check(page_count) -> Texts] :
             /\ scanned' = is_scanned_fallback(fitzText, page_count)
             /\ probe' = [backend |-> "fitz", texts |-> fitzText]
             /\ pc' = PathFor(scanned')
             /\ UNCHANGED <<pages_json, pdfplumber_tables, camelot_tables,
                            ocr_text, recognized, table_result, imgs, img_pos,
                            parsed, result, raised>>
       \/ /\ ReturnError("fitz: cannot read the document")
          /\ UNCHANGED scanned
    /\ UNCHANGED <<page_count, ocr_langs, pdfText, escalation, output>>

NextClassify == ProbePrimary \/ ProbeSecondary

\* The classification stage alone, on documents with pages beyond the sampled
\* prefix and with every kind of page text.
InitClassify == InitDoc(MaxPages + 1, Texts)

SpecClassify == InitClassify /\ [][NextClassify]_vars


----------------------------------------------------------------------------
(* ocr_extract *)

\* `len(ocr_text.strip()) > 10`, line 186
OCR_MIN_LEN == 10

\* utils.py never imports numpy, so the name `np` of its line 22 is unbound.
np_is_bound == FALSE

\* utils.pil_image_to_text, lines 17-23: easyocr recognizes `readtext` (or
\* raises); evaluating `np.array(img)` for the call raises NameError.
pil_image_to_text(readtext) ==
    IF np_is_bound /\ readtext.ok THEN Ok(readtext.v) ELSE Raised

\* What easyocr can recognize on a page image, joined by line breaks.
Recognized == {Raised, Ok(<<>>), Ok(<<"ch">>), Ok(LongText)}

\* One call of line 183 and, should it raise, the call of line 185.
OcrAttempts == [first : Recognized, retry : Recognized]

\* The loop of lines 181-187 from the k-th language on.  attempts[k] is
\* what easyocr recognizes for the k-th language.  The value is Ok(ocr_text)
\* or, when line 185 raises, Raised.
RECURSIVE OcrLangLoop(_, _, _, _)
OcrLangLoop(langs, attempts, k, last) ==
    IF k > Len(langs)
    THEN Ok(last)
    ELSE LET first == pil_image_to_text(attempts[k].first)
             got   == IF first.ok
                      THEN first
                      ELSE pil_image_to_text(attempts[k].retry)
         IN  IF ~got.ok
             THEN Raised
             ELSE IF got.v # <<>> /\ PyLen(Strip(got.v)) > OCR_MIN_LEN
                  THEN Ok(got.v)
                  ELSE OcrLangLoop(langs, attempts, k + 1, got.v)

\* The number of languages the loop of lines 181-187 tries from the k-th
\* on, when no call raises: it stops after the first whose text is accepted
\* by line 186.
RECURSIVE OcrTried(_, _, _)
OcrTried(langs, attempts, k) ==
    IF k > Len(langs)
    THEN Len(langs)
    ELSE LET first == pil_image_to_text(attempts[k].first)
             got   == IF first.ok
                      THEN first
                      ELSE pil_image_to_text(attempts[k].retry)
         IN  IF got.ok /\ got.v # <<>> /\ PyLen(Strip(got.v)) > OCR_MIN_LEN
             THEN k
             ELSE OcrTried(langs, attempts, k + 1)

\* lines 178-206: the page object of page i for the text of `ocr_text`.
OcrPageObj(i, text) ==
    [page_number |-> i,
     content |->
        (IF text # NoText /\ text # <<>>
         THEN ParagraphsOf(_simple_text_clean(text))
         ELSE <<>>)
        \o <<ImageItem("image", "page_snapshot",
                       JoinPath(assets_dir, SnapshotName(i)))>>]

\* parse line 239 and ocr_extract line 176: convert_from_path renders the
\* pages, or raises.
OcrStart ==
    /\ pc = "ocr"
    /\ calls' = Bump("ocr")
    /\ \/ /\ pc' = "ocr_pages"
          /\ probe' = NoProbe
          /\ UNCHANGED <<pages_json, pdfplumber_tables, camelot_tables,
                         ocr_text, recognized, table_result, imgs, img_pos,
                         parsed, result, raised>>
       \/ ReturnError("pdf2image: cannot render the document")
    /\ UNCHANGED <<page_count, ocr_langs, pdfText, scanned, escalation,
                   output>>

\* One iteration of the loop of line 177.
OcrPage ==
    /\ pc = "ocr_pages"
    /\ Len(pages_json) < page_count
    /\ \E attempts \in [1..Len(ocr_langs) -> OcrAttempts], saved \in BOOLEAN :
          LET i    == Len(pages_json) + 1
              text == OcrLangLoop(ocr_langs, attempts, 1, NoText)
          IN  IF ~text.ok
              THEN ReturnError("name 'np' is not defined")
              ELSE IF ~saved
              THEN ReturnError("PIL: cannot save the page image")
              ELSE /\ pages_json' = Append(pages_json, OcrPageObj(i, text.v))
                   /\ ocr_text' = text.v
                   /\ recognized' =
                         SubSeq(attempts, 1, OcrTried(ocr_langs, attempts, 1))
                   /\ UNCHANGED <<pc, probe, pdfplumber_tables,
                                  camelot_tables, table_result, imgs, img_pos,
                                  parsed, result, raised>>
    /\ UNCHANGED <<page_count, ocr_langs, pdfText, scanned, escalation,
                   output, calls>>

\* Line 239 without its `return`: the OCR result is dropped and parse goes on
\* with the digital path.
OcrFallThrough ==
    /\ pc = "ocr_pages"
    /\ Len(pages_json) = page_count
    /\ pc' = "rule_based"
    /\ pages_json' = <<>>
    /\ ocr_text' = NoText
    /\ recognized' = <<>>
    /\ UNCHANGED <<page_count, ocr_langs, pdfText, probe, scanned,
                   pdfplumber_tables, camelot_tables, table_result, imgs,
                   img_pos, parsed, escalation, output, result, raised, calls>>

\* ocr_extract line 208 and parse line 239: the OCR result is what parse
\* returns.
OcrReturn ==
    /\ pc = "ocr_pages"
    /\ Len(pages_json) = page_count
    /\ pc' = "done"
    /\ result' = Dict([pages |-> pages_json])
    /\ pages_json' = <<>>
    /\ ocr_text' = NoText
    /\ recognized' = <<>>
    /\ UNCHANGED <<page_count, ocr_langs, pdfText, probe, scanned,
                   pdfplumber_tables, camelot_tables, table_result, imgs,
                   img_pos, parsed, escalation, output, raised, calls>>


----------------------------------------------------------------------------
(* rule_based_extract and extract_images *)

\* Cell matrices: M1 and M2 differ in one cell, EmptyM is a table without
\* rows.
M1     == << <<"h1", "h2">>, <<"1", "2">> >>
M2     == << <<"h1", "h2">>, <<"1", "3">> >>
EmptyM == <<>>

\* What page.extract_tables() and camelot.read_pdf(...) can answer for a page.
PlumberAnswers == {Raised, Ok(<<>>), Ok(<<EmptyM, M1>>)}
CamelotAnswers == {Raised, Ok(<<>>), Ok(<<M1, M2>>), Ok(<<EmptyM>>)}

\* `x in xs` for a Python list xs
InList(x, xs) == \E k \in 1..Len(xs) : xs[k] = x

RECURSIVE TableItems(_, _)
TableItems(description, tables) ==
    IF tables = <<>> THEN <<>>
    ELSE <<Table(description, Head(tables))>>
            \o TableItems(description, Tail(tables))

\* lines 87-92: the tables of pdfplumber's answer that are kept (`if t:`);
\* none when extract_tables raised (line 99).
PlumberKept(answer) ==
    IF answer.ok THEN SelectSeq(answer.v, NonEmpty) ELSE <<>>

\* Line 108 comparing shapes: a camelot table with as many rows as a kept
\* pdfplumber table is taken for a duplicate.
IsNewShape(table_data, kept) ==
    ~\E k \in 1..Len(kept) : Len(kept[k]) = Len(table_data)

\* line 108: a camelot table is emitted unless it is in pdfplumber_tables.
IsNewTable(table_data, kept) == ~InList(table_data, kept)

\* lines 103-116: the camelot tables that are emitted; none when camelot
\* raised (line 115).
CamelotKept(answer, kept) ==
    IF answer.ok
    THEN LET New(t) == IsNewTable(t, kept) IN SelectSeq(answer.v, New)
    ELSE <<>>

\* lines 73-118: the page object of page i.
PageObj(i, raw, plumber, camelot) ==
    LET raw_text == OrEmpty(raw)
        text     == _simple_text_clean(raw_text)
        kept     == PlumberKept(plumber)
    IN  [page_number |-> i,
         content |->
            (IF text # <<>> THEN ParagraphsOf(text) ELSE <<>>)
            \o TableItems("Extracted by pdfplumber", kept)
            \o TableItems("Extracted by camelot", CamelotKept(camelot, kept))]

\* parse line 242 and rule_based_extract line 71: pdfplumber opens the
\* document, or raises.
RuleBasedStart ==
    /\ pc = "rule_based"
    /\ calls' = Bump("rule_based")
    /\ \/ /\ pc' = "rule_pages"
          /\ probe' = NoProbe
          /\ UNCHANGED <<pages_json, pdfplumber_tables, camelot_tables,
                         ocr_text, recognized, table_result, imgs, img_pos,
                         parsed, result, raised>>
       \/ ReturnError("pdfplumber: cannot open the document")
    /\ UNCHANGED <<page_count, ocr_langs, pdfText, scanned, escalation,
                   output>>

\* One iteration of the loop of line 72.  extract_text is outside every try
\* block: what it raises leaves rule_based_extract.
ExtractPage ==
    /\ pc = "rule_pages"
    /\ Len(pages_json) < page_count
    /\ \E text_ok \in BOOLEAN, plumber \in PlumberAnswers,
          camelot \in CamelotAnswers :
          LET i == Len(pages_json) + 1
          IN  IF ~text_ok
              THEN ReturnError("pdfplumber: extract_text failed")
              ELSE /\ pages_json' =
                        Append(pages_json,
                               PageObj(i, pdfText[i], plumber, camelot))
                   /\ pdfplumber_tables' = PlumberKept(plumber)
                   /\ camelot_tables' = camelot
                   /\ UNCHANGED <<pc, probe, ocr_text, recognized,
                                  table_result, imgs, img_pos, parsed, result,
                                  raised>>
    /\ UNCHANGED <<page_count, ocr_langs, pdfText, scanned, escalation,
                   output, calls>>

\* Image file extensions PyMuPDF reports (`base_image.get("ext", "png")`).
Png  == <<"p", "n", "g">>
Jpeg == <<"j", "p", "e", "g">>

\* The embedded images of a document, as the extensions of the images of each
\* page in get_images order: the images lie on one page, which has one or two.
ImageLists == {<<Png>>, <<Png, Jpeg>>}

Embedded(n) ==
    {[p \in 1..n |-> <<>>]}
    \cup {[p \in 1..n |-> IF p = q THEN l ELSE <<>>] :
            q \in 1..n, l \in ImageLists}

\* lines 157-165 for the images of page `page` from index k on.
RECURSIVE PageImages(_, _, _)
PageImages(page, exts, k) ==
    IF k >= Len(exts) THEN <<>>
    ELSE <<[page |-> page,
            path |-> JoinPath(assets_dir, image_name(page, k, exts[k + 1])),
            description |-> None]>>
         \o PageImages(page, exts, k + 1)

\* extract_images, lines 152-167, from page i+1 on.
RECURSIVE extract_images(_, _, _)
extract_images(embedded, i, n) ==
    IF i >= n THEN <<>>
    ELSE PageImages(i + 1, embedded[i + 1], 0)
            \o extract_images(embedded, i + 1, n)

\* rule_based_extract line 121: extract_images returns the list of saved
\* images, or fitz or the write of a file raises.
ExtractImages ==
    /\ pc = "rule_pages"
    /\ Len(pages_json) = page_count
    /\ \/ \E embedded \in Embedded(page_count) :
             /\ imgs' = extract_images(embedded, 0, page_count)
             /\ img_pos' = 0
             /\ pc' = "rule_images"
             /\ UNCHANGED <<probe, pages_json, pdfplumber_tables,
                            camelot_tables, ocr_text, recognized,
                            table_result, parsed, result, raised>>
       \/ ReturnError("fitz: cannot extract the images")
    /\ UNCHANGED <<page_count, ocr_langs, pdfText, scanned, escalation,
                   output, calls>>

\* str.lower() on the characters of a file name
UpperToLower ==
    [A |-> "a", B |-> "b", C |-> "c", D |-> "d", E |-> "e", F |-> "f",
     G |-> "g", H |-> "h", I |-> "i", J |-> "j", K |-> "k", L |-> "l",
     M |-> "m", N |-> "n", O |-> "o", P |-> "p", Q |-> "q", R |-> "r",
     S |-> "s", T |-> "t", U |-> "u", V |-> "v", W |-> "w", X |-> "x",
     Y |-> "y", Z |-> "z"]

lower(s) ==
    [k \in 1..Len(s) |->
        IF s[k] \in DOMAIN UpperToLower THEN UpperToLower[s[k]] ELSE s[k]]

\* `x in fname` for strings
Contains(s, x) ==
    \E k \in 0..(Len(s) - Len(x)) : SubSeq(s, k + 1, k + Len(x)) = x

ChartKeywords ==
    { <<"c", "h", "a", "r", "t">>, <<"g", "r", "a", "p", "h">>,
      <<"p", "l", "o", "t">> }

\* lines 138-140
img_type(fname) ==
    IF \E x \in ChartKeywords : Contains(fname, x) THEN "chart" ELSE "image"

\* What img2table's extract_tables can answer for an image: it raises, or
\* returns a false value (truthy is FALSE), or a dict whose "tables" are the
\* detected tables.
DetectorAnswers ==
    {Raised,
     Ok([truthy |-> FALSE, tables |-> <<>>]),
     Ok([truthy |-> TRUE, tables |-> <<>>]),
     Ok([truthy |-> TRUE, tables |-> <<M1>>]),
     Ok([truthy |-> TRUE, tables |-> <<M1, M2>>])}

\* `table_result and table_result.get("tables")`, line 129: the tables to
\* emit.
DetectedTables(answer) ==
    IF answer.truthy /\ answer.tables # <<>> THEN answer.tables ELSE <<>>

\* Lines 129-146 with the image item in an else branch: an image in which
\* tables were detected gives the table items only.
ImageContentUnlessTable(img_meta, answer) ==
    IF DetectedTables(answer) # <<>>
    THEN TableItems("Extracted from image using img2table",
                    DetectedTables(answer))
    ELSE <<ImageItem(img_type(lower(basename(img_meta.path))),
                     img_meta.description, img_meta.path)>>

\* lines 123-146: what the iteration for img_meta appends to its page.
ImageContent(img_meta, answer) ==
    TableItems("Extracted from image using img2table",
               DetectedTables(answer))
    \o <<ImageItem(img_type(lower(basename(img_meta.path))),
                   img_meta.description, img_meta.path)>>

\* One iteration of the loop of line 122.  The detector runs outside every
\* try block: what it raises leaves rule_based_extract.
RouteImage ==
    /\ pc = "rule_images"
    /\ img_pos < Len(imgs)
    /\ \E detected \in DetectorAnswers :
          LET img_meta == imgs[img_pos + 1]
              pnum     == img_meta.page
          IN  IF ~detected.ok
              THEN ReturnError("img2table: cannot read the image")
              ELSE /\ pages_json' =
                        [pages_json EXCEPT ![pnum].content =
                            @ \o ImageContent(img_meta, detected.v)]
                   /\ img_pos' = img_pos + 1
                   /\ table_result' = detected.v
                   /\ UNCHANGED <<pc, probe, pdfplumber_tables,
                                  camelot_tables, ocr_text, recognized, imgs,
                                  parsed, result, raised>>
    /\ UNCHANGED <<page_count, ocr_langs, pdfText, scanned, escalation,
                   output, calls>>


----------------------------------------------------------------------------
(* The completeness check and the escalation *)

\* The items of all pages, in page order.
RECURSIVE AllContent(_)
AllContent(pages) ==
    IF pages = <<>> THEN <<>>
    ELSE Head(pages).content \o AllContent(Tail(pages))

\* The truth value of a path string: it is not empty.
PathSet(path) == path.dir # "" \/ path.name # <<>>

\* `any(any(c["type"] == "paragraph" and c.get("text") for c in
\* p["content"]) for p in pages)`, lines 246-248
has_text(pages) ==
    \E k \in 1..Len(AllContent(pages)) :
        LET c == AllContent(pages)[k]
        IN  c.type = "paragraph" /\ c.text # <<>>

\* lines 249-251
has_table(pages) ==
    \E k \in 1..Len(AllContent(pages)) :
        LET c == AllContent(pages)[k]
        IN  c.type = "table" /\ c.table_data # <<>>

\* lines 252-254
has_image(pages) ==
    \E k \in 1..Len(AllContent(pages)) :
        LET c == AllContent(pages)[k]
        IN  c.type = "image" /\ PathSet(c.image_path)

\* Line 257 with `or` for `and`: escalate only when every kind is missing.
NeedsEscalationAllMissing(pages) ==
    ~(has_text(pages) \/ has_table(pages) \/ has_image(pages))

\* The condition of line 257.
NeedsEscalation(pages) ==
    ~(has_text(pages) /\ has_table(pages) /\ has_image(pages))

\* rule_based_extract line 148 and parse lines 242-257, 265: the digital
\* result is bound to `parsed`; a complete one is returned, an incomplete
\* one goes to the try block of line 259.
CheckCompleteness ==
    /\ pc = "rule_images"
    /\ img_pos = Len(imgs)
    /\ calls' = Bump("check")
    /\ pages_json' = <<>>
    /\ pdfplumber_tables' = <<>>
    /\ camelot_tables' = Raised
    /\ table_result' = NoResult
    /\ imgs' = <<>>
    /\ img_pos' = 0
    /\ IF NeedsEscalation(pages_json)
       THEN /\ pc' = "escalate"
            /\ parsed' = Dict([pages |-> pages_json])
            /\ UNCHANGED result
       ELSE /\ pc' = "done"
            /\ result' = Dict([pages |-> pages_json])
            /\ parsed' = Unset
    /\ UNCHANGED <<page_count, ocr_langs, pdfText, probe, scanned, ocr_text,
                   recognized, escalation, output, raised>>

\* config.py line 9
LLM_PROVIDER == "GEMINI"

\* str.upper() on the provider names
upper(s) ==
    CASE s \in {"gemini", "Gemini", "GEMINI"} -> "GEMINI"
      [] s \in {"openai", "OpenAI", "OPENAI"} -> "OPENAI"
      [] s \in {"none", "None", "NONE"} -> "NONE"
      [] OTHER -> s

\* The values of GEMINI_API_KEY (config.py line 10): unset, or a key.
ApiKeys == {"", "key"}

\* What the model can reply (response.text).
Replies ==
    {"not json", "{}", "[]", "null", "0", "\"\"",
     "{\"pages\": []}", "{\"summary\": \"done\"}",
     "{\"pages\": [], \"error\": \"partial\"}", "[1]"}

\* What generate_content does: it raises, or the response has a text.
LlmAnswers == {[ok |-> FALSE, v |-> ""]} \cup {Ok(r) : r \in Replies}

\* json.loads on the replies
json_loads(text) ==
    CASE text = "{}" -> Ok(Dict(<<>>))
      [] text = "[]" -> Ok([tag |-> "list", d |-> <<>>])
      [] text = "null" -> Ok([tag |-> "null"])
      [] text = "0" -> Ok([tag |-> "int", d |-> 0])
      [] text = "\"\"" -> Ok([tag |-> "str", d |-> ""])
      [] text = "{\"pages\": []}" -> Ok(Dict([pages |-> <<>>]))
      [] text = "{\"summary\": \"done\"}" -> Ok(Dict([summary |-> "done"]))
      [] text = "{\"pages\": [], \"error\": \"partial\"}" ->
            Ok(Dict([pages |-> <<>>, error |-> "partial"]))
      [] text = "[1]" -> Ok([tag |-> "list", d |-> <<1>>])
      [] OTHER -> Raised

\* Python's truth value of a JSON value (`if structured:`, line 261)
Truthy(x) ==
    CASE x.tag = "dict" -> DOMAIN x.d # {}
      [] x.tag = "list" -> x.d # <<>>
      [] x.tag = "int" -> x.d # 0
      [] x.tag = "str" -> x.d # ""
      [] OTHER -> FALSE

\* call_llm_for_json, llm_client.py lines 16-35, with the model's answer
\* `reply` (it raises, or it is the text of the response): the value is
\* [how, v], `how` telling how the call ended.
call_llm_for_json(api_key, reply) ==
    IF ~(upper(LLM_PROVIDER) = "GEMINI" /\ api_key # "")
    THEN [how |-> "no_provider", v |-> Unset]
    ELSE IF ~reply.ok
    THEN [how |-> "call_raised", v |-> Unset]
    ELSE LET loaded == json_loads(reply.v)
         IN  IF loaded.ok
             THEN [how |-> "json", v |-> loaded.v]
             ELSE [how |-> "not_json", v |-> Unset]

\* call_gemini_for_structure, lines 215-228: the prompts are read (or open
\* raises), then the model is called.
call_gemini_for_structure(prompts_ok, api_key, reply) ==
    IF ~prompts_ok
    THEN [how |-> "no_prompts", v |-> Unset]
    ELSE call_llm_for_json(api_key, reply)

\* parse without the inner handler of line 263: an exception of the
\* escalation reaches the handler of line 266.
EscalationUnguarded(structured, rule_based) ==
    IF structured.how = "json"
    THEN IF Truthy(structured.v) THEN structured.v ELSE rule_based
    ELSE Dict([error |-> structured.how])

\* Line 261 also asking for a "pages" field: a structured value without one
\* is dropped.
EscalationResultWithPages(structured, rule_based) ==
    IF /\ structured.how = "json"
       /\ structured.v.tag = "dict"
       /\ "pages" \in DOMAIN structured.v.d
    THEN structured.v
    ELSE rule_based

\* parse lines 259-265: a true structured value is returned; after an
\* exception (line 263) or a false value, `parsed` is.
EscalationResult(structured, rule_based) ==
    IF structured.how = "json" /\ Truthy(structured.v)
    THEN structured.v
    ELSE rule_based

\* The ways the try block of line 259 ends without a return.
Failures == {"no_prompts", "no_provider", "call_raised", "not_json"}

\* parse lines 258-265: the escalation.  A true structured value is returned;
\* after an exception or a false value, `parsed` is.
Escalate ==
    /\ pc = "escalate"
    /\ calls' = Bump("escalate")
    /\ \E prompts_ok \in BOOLEAN, api_key \in ApiKeys,
          reply \in LlmAnswers :
          LET structured ==
                  call_gemini_for_structure(prompts_ok, api_key, reply)
          IN  /\ escalation' =
                    IF structured.how # "json" THEN structured.how
                    ELSE IF Truthy(structured.v) THEN "returned" ELSE "falsy"
              /\ output' =
                    IF structured.how \in {"json", "not_json"}
                    THEN reply.v
                    ELSE ""
              /\ result' = EscalationResult(structured, parsed)
    /\ pc' = "done"
    /\ parsed' = Unset
    /\ UNCHANGED <<page_count, ocr_langs, pdfText, probe, scanned, pages_json,
                   pdfplumber_tables, camelot_tables, ocr_text, recognized,
                   table_result, imgs, img_pos, raised>>

----------------------------------------------------------------------------
(* parse *)

Next ==
    \/ ProbePrimary
    \/ ProbeSecondary
    \/ OcrStart
    \/ OcrPage
    \/ OcrReturn
    \/ RuleBasedStart
    \/ ExtractPage
    \/ ExtractImages
    \/ RouteImage
    \/ CheckCompleteness
    \/ Escalate

Spec == Init /\ [][Next]_vars

\* A text of three blocks, separated by a line of one space and by two blank
\* lines.
SpacedBlocks ==
    <<"ch", "nl", "sp", "nl", "ch", "sp", "nl", "nl", "nl", "WORD">>

BlockTexts == {NoText, <<>>, LongText, BlockText, SpacedBlocks}

\* The classification and the page loops of the two paths, on documents
\* whose page texts have several blocks.
InitText == InitDoc(MaxPages, BlockTexts)

NextText ==
    \/ ProbePrimary
    \/ ProbeSecondary
    \/ OcrStart
    \/ OcrPage
    \/ OcrReturn
    \/ RuleBasedStart
    \/ ExtractPage

SpecText == InitText /\ [][NextText]_vars

\* parse on documents all of whose pages have a text layer, for the order of
\* its steps.  parse is one thread of blocking calls: as long as it has not
\* returned, its next step is taken (every call into a library returns or
\* raises).
InitFair == InitDoc(MaxPages, {LongText})

SpecFair == InitFair /\ [][Next]_vars /\ WF_vars(Next)

\* The values of the variables.
TypeOK ==
    /\ pc \in {"classify", "fallback", "ocr", "ocr_pages", "rule_based",
               "rule_pages", "rule_images", "escalate", "done"}
    /\ page_count \in 0..(MaxPages + 1)
    /\ ocr_langs \in OcrLangs
    /\ scanned \in BOOLEAN
    /\ probe.backend \in {"none", "pdfplumber", "fitz"}
    /\ img_pos \in 0..Len(imgs)
    /\ Len(pages_json) <= page_count
    /\ parsed.tag \in {"unset", "dict"}
    /\ escalation \in {"none", "returned", "falsy"} \cup Failures
    /\ result.tag \in {"unset", "dict", "list", "int", "str", "null"}
    /\ \A s \in Steps : calls[s] \in 0..1
    /\ raised = "" \/ pc = "done"
    /\ Len(recognized) <= Len(ocr_langs)
    /\ table_result.truthy \in BOOLEAN
    /\ output \in {""} \cup Replies


----------------------------------------------------------------------------
(* Properties *)

PcValues ==
    {"classify", "fallback", "ocr", "ocr_pages", "rule_based", "rule_pages",
     "rule_images", "escalate", "done"}

HasPages(x) == x.tag = "dict" /\ "pages" \in DOMAIN x.d
HasError(x) == x.tag = "dict" /\ "error" \in DOMAIN x.d

\* The two shapes of a ParseResult.
SuccessShape(x) == HasPages(x) /\ ~HasError(x)
ErrorShape(x)   == HasError(x) /\ ~HasPages(x)

\* The exceptions of the classification, of the OCR path and of the digital
\* extraction path that no handler inside the path catches.
ClassificationFaults == {"fitz: cannot read the document"}
OcrFaults ==
    {"pdf2image: cannot render the document", "name 'np' is not defined",
     "PIL: cannot save the page image"}
DigitalFaults ==
    {"pdfplumber: cannot open the document", "pdfplumber: extract_text failed",
     "fitz: cannot extract the images", "img2table: cannot read the image"}

\* C1: parse never lets a failure escape.  Whenever the classification (both
\* probes), the OCR path or the digital extraction path raises an exception
\* that nothing inside it catches, parse has returned, and what it returned
\* is the error shape {"error": message}; parse is never left by an
\* exception.
C1_NoFailureEscapes ==
    /\ pc \in PcValues
    /\ raised \in {""} \cup ClassificationFaults \cup OcrFaults
                       \cup DigitalFaults
    /\ raised # "" =>
          /\ pc = "done"
          /\ ErrorShape(result)
          /\ result.d.error = raised
    /\ pc = "done" => result.tag # "unset"

\* A page's text extraction raised on the digital path and parse returned
\* the error shape.
C1_Witness ==
    /\ pc = "done"
    /\ raised = "pdfplumber: extract_text failed"
    /\ calls.rule_based = 1
    /\ result = Dict([error |-> "pdfplumber: extract_text failed"])

\* C2: escalation fallback.  Whenever the escalation is attempted and the
\* refinement fails (the prompts cannot be read, no provider or API key is
\* configured, the call raises, the reply is not JSON), parse returns the
\* rule-based result unchanged, which is not the error shape.
C2_EscalationFallback ==
    [][(pc = "escalate" /\ escalation' \in Failures) =>
          /\ pc' = "done"
          /\ result' = parsed
          /\ SuccessShape(result')
          /\ raised' = ""]_vars

\* The refiner replied with text that is not JSON and parse returned a page
\* result.
C2_Witness ==
    /\ pc = "done"
    /\ escalation = "not_json"
    /\ calls.escalate = 1
    /\ SuccessShape(result)
    /\ Len(result.d.pages) >= 1

\* A result is complete: over all its pages there are a paragraph with text,
\* a table with table data and an image with an image path.
Complete(pages) ==
    /\ \E p \in 1..Len(pages) : \E k \in 1..Len(pages[p].content) :
          /\ pages[p].content[k].type = "paragraph"
          /\ pages[p].content[k].text # <<>>
    /\ \E p \in 1..Len(pages) : \E k \in 1..Len(pages[p].content) :
          /\ pages[p].content[k].type = "table"
          /\ pages[p].content[k].table_data # <<>>
    /\ \E p \in 1..Len(pages) : \E k \in 1..Len(pages[p].content) :
          /\ pages[p].content[k].type = "image"
          /\ pages[p].content[k].image_path.name # <<>>

\* The number of items of the given type in a result.
CountType(pages, kind) ==
    Cardinality({k \in 1..Len(AllContent(pages)) :
                    AllContent(pages)[k].type = kind})

\* C3: the completeness gate.  On the digital path the escalation is
\* attempted iff the rule-based result is not complete: a result that goes to
\* the escalation is incomplete, and a result that parse returns without an
\* escalation is complete, so in particular has a table.
C3_CompletenessGate ==
    /\ pc = "escalate" =>
          /\ calls.check = 1
          /\ HasPages(parsed)
          /\ ~Complete(parsed.d.pages)
    /\ (pc = "done" /\ calls.check = 1 /\ calls.escalate = 0) =>
          /\ SuccessShape(result)
          /\ Complete(result.d.pages)
          /\ CountType(result.d.pages, "table") >= 1
    /\ calls.escalate = 1 => calls.check = 1
    /\ calls.check = 1 => calls.rule_based = 1 /\ calls.ocr = 0

\* A result with a paragraph and an image but no table goes to the
\* escalation.
C3_Witness ==
    /\ pc = "escalate"
    /\ HasPages(parsed)
    /\ CountType(parsed.d.pages, "paragraph") >= 1
    /\ CountType(parsed.d.pages, "image") >= 1
    /\ CountType(parsed.d.pages, "table") = 0

\* The classifier has returned.
Classified ==
    \/ pc \in {"ocr", "ocr_pages", "rule_based", "rule_pages", "rule_images",
               "escalate"}
    \/ calls.ocr = 1
    \/ calls.rule_based = 1

\* C4: the OCR path never escalates.  Once the classifier has returned
\* Scanned, the digital path, the completeness check and the escalation never
\* run, and what ocr_extract returns is what parse returns.
C4_OcrNeverEscalates ==
    /\ [](Classified /\ scanned =>
            /\ calls.rule_based = 0
            /\ calls.check = 0
            /\ calls.escalate = 0
            /\ escalation = "none"
            /\ pc \in {"ocr", "ocr_pages", "done"}
            /\ pc = "done" => calls.ocr = 1)
    /\ [][(pc = "ocr_pages" /\ pc' = "done" /\ raised' = "") =>
            result' = Dict([pages |-> pages_json])]_vars

\* A scanned document of one page whose OCR result parse returned.
C4_Witness ==
    /\ pc = "done"
    /\ scanned
    /\ calls.ocr = 1
    /\ SuccessShape(result)
    /\ Len(result.d.pages) = 1


\* The stripped text is longer than the threshold.
TrimmedLong(text) == PyLen(Strip(OrEmpty(text))) > MIN_TEXT_LEN

\* C5: the classifier threshold.  The classification examines the first
\* min(2, page count) pages only and is Scanned iff none of them has
\* stripped text longer than 50 characters; with the primary backend the
\* examined texts are those of the document's leading pages.
C5_ClassifierThreshold ==
    pc \in {"ocr", "rule_based"} =>
        LET k == Min(sample_pages, page_count)
        IN  /\ Len(probe.texts) = k
            /\ probe.backend = "pdfplumber" =>
                  /\ \A i \in 1..k : probe.texts[i] = pdfText[i]
                  /\ scanned = (\A i \in 1..k : ~TrimmedLong(pdfText[i]))
            /\ scanned = (\A i \in 1..k : ~TrimmedLong(probe.texts[i]))
            /\ pc = (IF scanned THEN "ocr" ELSE "rule_based")

\* A document whose only page with text lies beyond the sampled prefix is
\* classified Scanned.
C5_Witness ==
    /\ pc = "ocr"
    /\ scanned
    /\ probe.backend = "pdfplumber"
    /\ page_count > sample_pages
    /\ \E i \in (sample_pages + 1)..page_count : TrimmedLong(pdfText[i])

\* C6: the classification failure policy.  Each probe runs at most once and
\* the secondary only after the primary raised; the secondary's answer, by
\* the same threshold over the same number of pages, is the classification;
\* when the secondary raises too, no path runs and parse returns the error
\* shape.
C6_ClassificationFailurePolicy ==
    /\ calls.primary <= 1 /\ calls.secondary <= 1
    /\ calls.secondary = 1 => calls.primary = 1
    /\ pc = "fallback" => calls.primary = 1 /\ calls.secondary = 0
    /\ probe.backend = "fitz" =>
          /\ calls.secondary = 1
          /\ Len(probe.texts) = Min(sample_pages, page_count)
          /\ scanned = (\A i \in 1..Len(probe.texts) :
                            ~TrimmedLong(probe.texts[i]))
          /\ pc = (IF scanned THEN "ocr" ELSE "rule_based")
    /\ raised \in ClassificationFaults =>
          /\ pc = "done"
          /\ ErrorShape(result)
          /\ calls = [s \in Steps |->
                        IF s \in {"primary", "secondary"} THEN 1 ELSE 0]
    /\ (calls.ocr = 1 \/ calls.rule_based = 1) =>
          raised \notin ClassificationFaults

\* The primary probe raised and the secondary classified a page whose text
\* is longer than the threshold only before stripping: Scanned.
C6_Witness ==
    /\ pc = "ocr"
    /\ probe.backend = "fitz"
    /\ scanned
    /\ calls.primary = 1
    /\ \E i \in 1..Len(probe.texts) : probe.texts[i] = PaddedText

\* The number of entries of a list that equal x.
Occ(x, xs) == Cardinality({k \in 1..Len(xs) : xs[k] = x})

\* The number of table items of a page with the given description and data.
TableCount(page, description, table_data) ==
    Cardinality({k \in 1..Len(page.content) :
                    /\ page.content[k].type = "table"
                    /\ page.content[k].description = description
                    /\ page.content[k].table_data = table_data})

Matrices == {M1, M2, EmptyM}

\* C7: dedup exactness.  On the page extracted last, every kept pdfplumber
\* table is emitted, and a camelot table is emitted iff it equals, cell for
\* cell, no kept pdfplumber table of that page: a matrix both extractors
\* return gives one table item, a matrix that differs in one cell gives a
\* second.
C7_DedupExactness ==
    (pc \in {"rule_pages", "rule_images"} /\ pages_json # <<>>) =>
        LET page == pages_json[Len(pages_json)]
        IN  \A m \in Matrices :
               /\ TableCount(page, "Extracted by pdfplumber", m)
                     = Occ(m, pdfplumber_tables)
               /\ TableCount(page, "Extracted by camelot", m)
                     = IF camelot_tables.ok /\ Occ(m, pdfplumber_tables) = 0
                       THEN Occ(m, camelot_tables.v)
                       ELSE 0

\* pdfplumber returned M1 and camelot M1 and M2: the page has one table item
\* for M1 and one for M2.
C7_Witness ==
    /\ pc = "rule_pages"
    /\ pages_json # <<>>
    /\ pdfplumber_tables = <<M1>>
    /\ camelot_tables = Ok(<<M1, M2>>)
    /\ LET page == pages_json[Len(pages_json)]
       IN  /\ TableCount(page, "Extracted by pdfplumber", M1) = 1
           /\ TableCount(page, "Extracted by camelot", M1) = 0
           /\ TableCount(page, "Extracted by camelot", M2) = 1

\* The failures of the extraction methods of a page: the page's text
\* extraction, the embedded-image extraction, the table-in-image detection.
ExtractionFaults ==
    {"pdfplumber: extract_text failed", "fitz: cannot extract the images",
     "img2table: cannot read the image"}

\* C8: per-page, per-method extraction failures are suppressed locally.  On
\* the digital path no failure of an extraction method reaches parse's
\* handler: parse returns the rule-based pages (or what the escalation
\* returned), not the error shape.
C8_ExtractionFailuresSuppressed ==
    /\ raised \notin ExtractionFaults
    /\ (pc = "done" /\ calls.rule_based = 1
            /\ raised # "pdfplumber: cannot open the document"
            /\ escalation # "returned") => SuccessShape(result)

\* text first, then tables, then images and charts
Rank(item) ==
    CASE item.type = "paragraph" -> 1
      [] item.type = "table" -> 2
      [] OTHER -> 3

Ordered(content) ==
    \A j, k \in 1..Len(content) : j < k => Rank(content[j]) <= Rank(content[k])

\* C9: the content order invariant.  In every page of a rule-based or OCR
\* result under construction or returned, no paragraph follows a table or an
\* image and no table follows an image or a chart.
C9_ContentOrder ==
    /\ \A p \in 1..Len(pages_json) : Ordered(pages_json[p].content)
    /\ HasPages(parsed) =>
          \A p \in 1..Len(parsed.d.pages) : Ordered(parsed.d.pages[p].content)

\* C10: ParseResult shape exclusivity.  Every value parse returns has a
\* pages sequence or an error string, never both and never neither.
C10_ShapeExclusive ==
    pc = "done" => (SuccessShape(result) \/ ErrorShape(result))


\* The number of items of a page whose type is one of `kinds`.
ItemCount(page, kinds) ==
    Cardinality({k \in 1..Len(page.content) : page.content[k].type \in kinds})

\* The file name page_<n>.png, n below 10.
PageFile(n) ==
    <<"p", "a", "g", "e", "_", Digit[n + 1], ".", "p", "n", "g">>

\* A page of the OCR path: paragraphs and one image item, the snapshot of the
\* page.
OcrPageShape(page) ==
    /\ ItemCount(page, {"image"}) = 1
    /\ ItemCount(page, {"table", "chart"}) = 0
    /\ \A k \in 1..Len(page.content) :
          LET c == page.content[k]
          IN  /\ c.type \in {"paragraph", "image"}
              /\ c.type = "image" =>
                    /\ c.description = "page_snapshot"
                    /\ c.image_path = JoinPath(assets_dir,
                                               PageFile(page.page_number))

\* The texts OCR can give for a page.
OcrTexts == Texts \cup {<<"ch">>}

\* C11: the page structure of the OCR path.  Every page ocr_extract has
\* produced, and every page of the result it returns through parse, is page
\* number n at position n and has exactly one image item, of description
\* "page_snapshot" and image_path page_<n>.png in the assets directory, and
\* no table and no chart item; when the OCR path is entered, the page
\* object ocr_extract builds for any page and any recognized text (none,
\* empty, one block, several blocks) has that structure too.
C11_OcrPageStructure ==
    /\ pc = "ocr_pages" =>
          \A p \in 1..Len(pages_json) :
             /\ pages_json[p].page_number = p
             /\ OcrPageShape(pages_json[p])
    /\ (pc = "done" /\ calls.ocr = 1 /\ raised = "") =>
          /\ SuccessShape(result)
          /\ Len(result.d.pages) = page_count
          /\ \A p \in 1..page_count :
                /\ result.d.pages[p].page_number = p
                /\ OcrPageShape(result.d.pages[p])
    /\ pc = "ocr" =>
          \A i \in 1..page_count : \A text \in OcrTexts :
             /\ OcrPageObj(i, text).page_number = i
             /\ OcrPageShape(OcrPageObj(i, text))

\* ocr_extract has produced the second page of a document: its only item is
\* the snapshot page_2.png.
C11_Witness ==
    /\ pc = "ocr_pages"
    /\ Len(pages_json) >= 2
    /\ Len(pages_json[2].content) = 1
    /\ pages_json[2].content[1].type = "image"
    /\ pages_json[2].content[1].image_path.name = PageFile(2)

\* The text the attempt for a language gave: that of the call of line 183
\* or, when it raised, that of the call of line 185.
AttemptText(attempt) ==
    IF attempt.first.ok THEN attempt.first.v ELSE attempt.retry.v

\* The stripped text is longer than OCR_MIN_LEN.
Qualifies(text) == PyLen(Strip(text)) > OCR_MIN_LEN

\* C13: the OCR language selection.  For every page a text is used: no
\* attempt of the language loop ends the run.  The languages are tried in
\* the configured order; the text used for the page is that of the last
\* language tried; no language tried before it gave more than 10 stripped
\* characters; and the loop stops before the last configured language only
\* at a language that gave more than 10.
C13_LanguageSelection ==
    /\ raised # "name 'np' is not defined"
    /\ (pc = "ocr_pages" /\ pages_json # <<>> /\ ocr_langs # <<>>) =>
          LET n == Len(recognized)
          IN  /\ n \in 1..Len(ocr_langs)
              /\ ocr_text = AttemptText(recognized[n])
              /\ \A k \in 1..(n - 1) : ~Qualifies(AttemptText(recognized[k]))
              /\ n < Len(ocr_langs) => Qualifies(ocr_text)


\* The number of image or chart items of a page that reference `path`.
ImageItemsFor(page, path) ==
    Cardinality({k \in 1..Len(page.content) :
                    /\ page.content[k].type \in {"image", "chart"}
                    /\ page.content[k].image_path = path})

Phase(at) ==
    CASE at \in {"classify", "fallback"} -> 1
      [] at \in {"ocr", "ocr_pages", "rule_based", "rule_pages",
                 "rule_images"} -> 2
      [] at = "escalate" -> 3
      [] OTHER -> 4

\* C15: single-pass orchestration.  No step of parse runs twice; the
\* classification is the first step and no other step runs without it; at
\* most one of the OCR path and the digital path runs; the completeness check
\* runs only after the digital path and the escalation only after the check;
\* parse never goes back to an earlier phase and takes no step once it has
\* returned; and every run ends in Done or Failed: parse returns, a result or
\* the error shape.
C15_SinglePass ==
    /\ [](/\ \A s \in Steps : calls[s] <= 1
          /\ (pc # "classify") = (calls.primary = 1)
          /\ (\E s \in Steps : calls[s] = 1) => calls.primary = 1
          /\ calls.ocr + calls.rule_based <= 1
          /\ pc \in {"ocr_pages"} => calls.ocr = 1
          /\ pc \in {"rule_pages", "rule_images"} => calls.rule_based = 1
          /\ calls.check = 1 => calls.rule_based = 1
          /\ calls.escalate = 1 => calls.check = 1
          /\ pc = "escalate" => calls.check = 1 /\ calls.escalate = 0
          /\ pc = "done" =>
                /\ result.tag # "unset"
                /\ raised # "" => ErrorShape(result))
    /\ [][/\ pc # "done"
          /\ Phase(pc') >= Phase(pc)
          /\ \A s \in Steps : calls'[s] \in {calls[s], calls[s] + 1}
          /\ Cardinality({s \in Steps : calls'[s] # calls[s]}) <= 1]_vars
    /\ <>(pc = "done")

\* A run that took the digital path, the completeness check and the
\* escalation, each once, and returned.
C15_Witness ==
    /\ pc = "done"
    /\ raised = ""
    /\ calls = [s \in Steps |->
                  IF s \in {"primary", "rule_based", "check", "escalate"}
                  THEN 1
                  ELSE 0]


\* The replies that are valid JSON for an empty or false value, and the
\* other replies that are valid JSON.
FalsyJson  == {"{}", "[]", "null", "0", "\"\""}
TruthyJson ==
    {"{\"pages\": []}", "{\"summary\": \"done\"}",
     "{\"pages\": [], \"error\": \"partial\"}", "[1]"}

\* C16: what parse does with the refiner's JSON.  When the escalation is
\* attempted and the refiner's text parses as an empty or false JSON value
\* ({}, [], null, 0, ""), parse returns the rule-based result; when it parses
\* as any other JSON value, parse returns that value as it is, with or
\* without a pages field, and no exception is recorded.
C16_RefinerJson ==
    [][pc = "escalate" =>
          /\ pc' = "done"
          /\ raised' = ""
          /\ output' \in FalsyJson =>
                /\ escalation' = "falsy"
                /\ result' = parsed
                /\ SuccessShape(result')
          /\ output' \in TruthyJson =>
                /\ escalation' = "returned"
                /\ result' = json_loads(output').v
          /\ escalation' = "falsy" => output' \in FalsyJson
          /\ escalation' = "returned" => output' \in TruthyJson]_vars

\* The refiner replied {"summary": "done"} to a rule-based result with a
\* page: parse returned the reply's value, which has no pages field.
C16_Witness ==
    /\ pc = "done"
    /\ calls.escalate = 1
    /\ escalation = "returned"
    /\ output = "{\"summary\": \"done\"}"
    /\ result = Dict([summary |-> "done"])
    /\ page_count >= 1


\* The text has a character that is not white space.
HasInk(text) == text # NoText /\ \E k \in 1..Len(text) : ~IsSpace(text[k])

\* The paragraph items of a page.
ParagraphsIn(page) ==
    SelectSeq(page.content, LAMBDA c : c.type = "paragraph")

\* C17: at most one paragraph for a page.  On the digital path a page has
\* one paragraph item when its text has a character that is not white space
\* and none otherwise, however many blank-line-separated blocks the text
\* has, and the paragraph's text has no line break; the pages of the OCR
\* path, under construction or returned, have at most one paragraph item,
\* and so has the page object ocr_extract builds for any recognized text.
C17_OneParagraph ==
    /\ pc = "rule_pages" =>
          \A p \in 1..Len(pages_json) :
             LET ps == ParagraphsIn(pages_json[p])
             IN  /\ Len(ps) = IF HasInk(pdfText[p]) THEN 1 ELSE 0
                 /\ \A k \in 1..Len(ps) :
                       /\ ps[k].text # <<>>
                       /\ \A j \in 1..Len(ps[k].text) : ps[k].text[j] # "nl"
    /\ pc = "ocr_pages" =>
          \A p \in 1..Len(pages_json) : Len(ParagraphsIn(pages_json[p])) <= 1
    /\ (pc = "done" /\ HasPages(result)) =>
          \A p \in 1..Len(result.d.pages) :
             Len(ParagraphsIn(result.d.pages[p])) <= 1
    /\ pc = "ocr" =>
          \A i \in 1..page_count : \A text \in OcrTexts \cup BlockTexts :
             Len(ParagraphsIn(OcrPageObj(i, text)))
                = IF HasInk(text) THEN 1 ELSE 0

\* A page whose text has three blocks has one paragraph item, the blocks
\* joined by single spaces.
C17_Witness ==
    /\ pc = "rule_pages"
    /\ \E p \in 1..Len(pages_json) :
          /\ pdfText[p] = SpacedBlocks
          /\ ParagraphsIn(pages_json[p]) =
                <<Paragraph(<<"ch", "sp", "ch", "sp", "WORD">>)>>


\* No page of `pages` has a chart item.
NoChart(pages) ==
    \A p \in 1..Len(pages) : ItemCount(pages[p], {"chart"}) = 0

\* C18: rule-based extraction produces no chart item.  The file name of
\* every extracted image, in lower case, has none of the chart keywords;
\* every image routed so far is on its page as an item of type "image"; and
\* neither the pages under construction nor the rule-based result, on its way
\* to the escalation or returned by parse, has an item of type "chart".
C18_NoChart ==
    /\ NoChart(pages_json)
    /\ HasPages(parsed) => NoChart(parsed.d.pages)
    /\ (pc = "done" /\ HasPages(result) /\ escalation # "returned") =>
          NoChart(result.d.pages)
    /\ pc = "rule_images" =>
          \A k \in 1..Len(imgs) :
             /\ \A x \in ChartKeywords :
                   ~Contains(lower(basename(imgs[k].path)), x)
             /\ k <= img_pos =>
                   \E j \in 1..Len(pages_json[imgs[k].page].content) :
                      LET c == pages_json[imgs[k].page].content[j]
                      IN  c.type = "image" /\ c.image_path = imgs[k].path

\* parse returned a complete rule-based result with the two images of a
\* page, a png and a jpeg, both of type "image".
C18_Witness ==
    /\ pc = "done"
    /\ calls.check = 1
    /\ calls.escalate = 0
    /\ HasPages(result)
    /\ CountType(result.d.pages, "image") = 2
    /\ CountType(result.d.pages, "chart") = 0

============================================================================
